---- MODULE Spec2Model ----
(***************************************************************************)
(* Keyboard navigation of a table with role="grid":                        *)
(* src/table/table-role/use-grid-navigation.ts (GridNavigationModel and    *)
(* the useGridNavigation hook), together with the part of the DOM that the *)
(* model reads and writes: the rows of the table, the focused element, the *)
(* listeners of the table and its mutation observers.                      *)
(***************************************************************************)
EXTENDS Integers, Sequences, FiniteSets

\* ---------------------------------------------------------------- bounds
\* Rows of the table where rows are inserted and removed.
MaxRows == 2
\* Rows of the table where the grid is fixed.
GridRows == 3
NumCols == 3
MaxPageSize == 2
MaxObservers == 2
MaxPending == 1

\* ------------------------------------------------------------- constants
\* Number.POSITIVE_INFINITY: larger than any coordinate of the grid.
Infinity == 1000000
f2Code == 113
\* ../../internal/keycode
KeyCode ==
  [pageUp |-> 33, pageDown |-> 34, end |-> 35, home |-> 36, left |-> 37,
   up |-> 38, right |-> 39, down |-> 40, enter |-> 13, escape |-> 27]
\* A key the dispatcher has no command for.
otherKey == 65

VARIABLES
  _pageSize,        \* GridNavigationModel._pageSize
  _table,           \* GridNavigationModel._table: Null or {table}
  prevFocusedCell,  \* Null or {FocusedCell}
  focusedCell,      \* Null or {FocusedCell}
  cleanup,          \* 0: the empty function; k > 0: the closure of init over observer k
  listeners,        \* event types the table has the model's handler registered for
  observers,        \* MutationObservers observing the table
  pending,          \* records queued for each observer, not yet delivered
  rows,             \* the tr nodes of the table, in document order
  ariaRowIndex,     \* aria-rowindex stamped on each tr node (-1: none)
  activeElement,    \* document.activeElement
  mounted,          \* the component using the hook is mounted
  tableRole,        \* its tableRole prop
  lastOp,           \* the operation that produced this state, with its input
  calls,            \* calls that operation made on its collaborators, in order
  thrown            \* that operation threw

vars ==
  <<_pageSize, _table, prevFocusedCell, focusedCell, cleanup, listeners,
    observers, pending, rows, ariaRowIndex, activeElement, mounted, tableRole,
    lastOp, calls, thrown>>

\* ------------------------------------------------------------------- DOM
Null == {}
Some(v) == {v}
Get(o) == CHOOSE v \in o : TRUE

Table == "table"
\* tr nodes: those of the table, and removed ones something still refers to.
RowIds == 1 .. ((IF MaxRows > GridRows THEN MaxRows ELSE GridRows) + MaxPending + 1)
Cols == 0 .. (NumCols - 1)
ObserverIds == 1 .. MaxObservers

\* Columns repeat three kinds of cell: a cell with no focusable content, a
\* cell hosting a widget of two focusable elements, a cell (no widget) with
\* one focusable descendant.
isWidgetCell(c) == c % 3 = 1
numFocusables(c) == IF c % 3 = 0 THEN 0 ELSE IF c % 3 = 1 THEN 2 ELSE 1

\* An element of a cell: part 0 is the td itself, part k > 0 its k-th
\* focusable descendant.
Element(r, c, p) == [row |-> r, col |-> c, part |-> p]
Body == Element(0, 0, 0)
\* A focusable element of the table that is inside no cell.
TableRoot == Element(0, 1, 0)

LiveRowIds(rs) == {rs[i] : i \in 1 .. Len(rs)}
CellElements(rs) ==
  {Element(r, c, p) : r \in LiveRowIds(rs), c \in Cols, p \in 0 .. 2}
    \cap {e \in [row : RowIds, col : Cols, part : 0 .. 2] : e.part <= numFocusables(e.col)}
InTable(rs, e) == e = TableRoot \/ e \in CellElements(rs)
PositionOf(rs, r) == CHOOSE i \in 1 .. Len(rs) : rs[i] = r

Min(a, b) == IF a < b THEN a ELSE b
Max(a, b) == IF a > b THEN a ELSE b
Clamp(v, lo, hi) == Max(lo, Min(v, hi))

\* The state an operation works on: the model's fields and the DOM, with
\* what the operation did so far: its calls, the cell it last passed to
\* updateTableIndices (anchor), whether it threw.
Now ==
  [_pageSize |-> _pageSize, _table |-> _table,
   prevFocusedCell |-> prevFocusedCell, focusedCell |-> focusedCell,
   cleanup |-> cleanup, listeners |-> listeners, observers |-> observers,
   pending |-> pending, rows |-> rows, ariaRowIndex |-> ariaRowIndex,
   activeElement |-> activeElement, calls |-> <<>>, anchor |-> Null,
   thrown |-> FALSE]

Call(fn, y, x) == [fn |-> fn, y |-> y, x |-> x]
Record(s, c) == [s EXCEPT !.calls = Append(@, c)]
Throw(s) == [s EXCEPT !.thrown = TRUE]

\* ------------------------------------------------------ collaborators
\* ./utils updateTableIndices: stamps every row of the table with its index.
updateTableIndices(s, cell) ==
  [Record(s, Call("updateTableIndices", 0, 0)) EXCEPT
     !.anchor = cell,
     !.ariaRowIndex =
        [r \in RowIds |->
           IF r \in LiveRowIds(s.rows) THEN PositionOf(s.rows, r) - 1
           ELSE s.ariaRowIndex[r]]]

\* ./utils findFocusinCell: the descriptor of the cell the target is in.
findFocusinCell(target) ==
  IF target.row = 0 THEN Null
  ELSE Some([element |-> target,
             cellElement |-> Element(target.row, target.col, 0),
             widget |-> isWidgetCell(target.col)])

\* ../../internal/utils/dom containsOrEqual, of a removed tr and an element.
containsOrEqual(node, element) == element.row = node

\* ----------------------------------------------- GridNavigationModel
\* update that drops the new configuration.
updateIgnored(s, pageSize) == s

\* update({ pageSize })
update(s, pageSize) == [s EXCEPT !._pageSize = pageSize]

\* onFocusout clearing both descriptors.
onFocusoutBoth(s) == [s EXCEPT !.focusedCell = Null, !.prevFocusedCell = Null]

\* onFocusout
onFocusout(s) == [s EXCEPT !.focusedCell = Null]

\* onFocusin without the refresh of the indices.
onFocusinNoRefresh(s, target) ==
  LET cell == findFocusinCell(target)
  IN  IF cell = Null THEN s
      ELSE [s EXCEPT !.prevFocusedCell = cell, !.focusedCell = cell]

\* onFocusin, for an event whose target is the given element
onFocusin(s, target) ==
  LET cell == findFocusinCell(target)
      s1 == [s EXCEPT !.prevFocusedCell = cell, !.focusedCell = cell]
  IN  IF cell = Null THEN s
      ELSE IF s1._table = Null THEN Throw(s1)
      ELSE updateTableIndices(s1, cell)

\* HTMLElement.focus() and the focus change of a user: focusout is dispatched
\* at the element that loses focus, then focusin at the one that gains it;
\* both bubble to the listeners of the table they are in.
focus(s, target) ==
  LET old == s.activeElement
      s1 == [s EXCEPT !.activeElement = target]
      s2 == IF InTable(s.rows, old) /\ "focusout" \in s.listeners
            THEN onFocusout(s1) ELSE s1
      s3 == IF InTable(s.rows, target) /\ "focusin" \in s.listeners
            THEN onFocusin(s2, target) ELSE s2
  IN  IF target = old \/ (target # Body /\ ~InTable(s.rows, target)) THEN s ELSE s3

\* ./utils moveFocusBy: the cell at the coordinate of `from` plus delta,
\* clamped to the grid, receives focus; a move by a non-zero delta to a cell
\* that is no widget cell focuses its first focusable descendant, if any.
moveFocusBy(s, from, delta) ==
  LET s0 == Record(s, Call("moveFocusBy", delta.y, delta.x))
      fromRow == s.ariaRowIndex[from.cellElement.row]
      r == Clamp(fromRow + delta.y, 0, Len(s.rows) - 1)
      c == Clamp(from.cellElement.col + delta.x, 0, NumCols - 1)
      p == IF (delta.y # 0 \/ delta.x # 0) /\ ~isWidgetCell(c) /\ numFocusables(c) > 0
           THEN 1 ELSE 0
  IN  IF Len(s.rows) = 0 \/ fromRow < 0 THEN s0
      ELSE focus(s0, Element(s.rows[r + 1], c, p))

\* ./utils moveFocusIn: the first focusable descendant of the cell, if any,
\* receives focus.
moveFocusIn(s, from) ==
  LET s0 == Record(s, Call("moveFocusIn", 0, 0))
      cell == from.cellElement
  IN  IF numFocusables(cell.col) = 0 THEN s0
      ELSE focus(s0, Element(cell.row, cell.col, 1))

\* The handler leaving the default action of the key in place.
preventDefaultOmitted(s) == s

\* event.preventDefault()
preventDefault(s) == Record(s, Call("preventDefault", 0, 0))

\* The same with the components of the delta exchanged.
preventAndMoveByTransposed(s, from, y, x) ==
  LET s1 == preventDefault(s)
  IN  IF s1._table = Null THEN Throw(s1)
      ELSE moveFocusBy(s1, from, [y |-> x, x |-> y])

\* preventDefault, then moveFocusBy(this.table, from, delta)
preventAndMoveBy(s, from, y, x) ==
  LET s1 == preventDefault(s)
  IN  IF s1._table = Null THEN Throw(s1)
      ELSE moveFocusBy(s1, from, [y |-> y, x |-> x])

\* numModifiersPressed without metaKey.
numModifiersPressedNoMeta(event) ==
  (IF event.ctrlKey THEN 1 ELSE 0) + (IF event.altKey THEN 1 ELSE 0)
    + (IF event.shiftKey THEN 1 ELSE 0)

numModifiersPressed(event) ==
  (IF event.ctrlKey THEN 1 ELSE 0) + (IF event.altKey THEN 1 ELSE 0)
    + (IF event.shiftKey THEN 1 ELSE 0) + (IF event.metaKey THEN 1 ELSE 0)

minExtreme == -Infinity
maxExtreme == Infinity

\* The F2 command moving into the cell wherever focus is.
f2CommandIntoOnly(s, from) == moveFocusIn(preventDefault(s), from)

\* case f2Code of the switch
f2Command(s, from) ==
  IF from.element = from.cellElement
  THEN moveFocusIn(preventDefault(s), from)
  ELSE preventAndMoveBy(s, from, 0, 0)

\* The switch of onKeydown, on the key code negated when Ctrl alone is held.
dispatchKey(s, from, key) ==
  CASE key = KeyCode.up -> preventAndMoveBy(s, from, -1, 0)
    [] key = KeyCode.down -> preventAndMoveBy(s, from, 1, 0)
    [] key = KeyCode.left -> preventAndMoveBy(s, from, 0, -1)
    [] key = KeyCode.right -> preventAndMoveBy(s, from, 0, 1)
    [] key = KeyCode.pageUp -> preventAndMoveBy(s, from, -s._pageSize, 0)
    [] key = KeyCode.pageDown -> preventAndMoveBy(s, from, s._pageSize, 0)
    [] key = KeyCode.home -> preventAndMoveBy(s, from, 0, minExtreme)
    [] key = KeyCode.end -> preventAndMoveBy(s, from, 0, maxExtreme)
    [] key = -KeyCode.home -> preventAndMoveBy(s, from, minExtreme, minExtreme)
    [] key = -KeyCode.end -> preventAndMoveBy(s, from, maxExtreme, maxExtreme)
    [] key = KeyCode.enter ->
         IF from.element = from.cellElement
         THEN moveFocusIn(preventDefault(s), from) ELSE s
    [] key = KeyCode.escape ->
         IF from.element # from.cellElement
         THEN preventAndMoveBy(s, from, 0, 0) ELSE s
    [] key = f2Code -> f2Command(s, from)
    [] OTHER -> s

\* The key of the switch without the negation.
keyOfNotNegated(event) == event.keyCode

\* The key of the switch: the key code, negated when Ctrl alone is held.
keyOf(event) ==
  IF numModifiersPressed(event) = 1 /\ event.ctrlKey THEN -event.keyCode
  ELSE event.keyCode

\* The gate without the comparison of element and cellElement.
insideWidgetCell(from) == from.widget

\* Focus is inside the widget of a widget cell.
insideWidget(from) == from.widget /\ from.element # from.cellElement

\* onKeydown falling back to prevFocusedCell when focusedCell is null.
onKeydownFromPrev(s, event) ==
  LET n == numModifiersPressed(event)
      key == keyOf(event)
      cell == IF s.focusedCell # Null THEN s.focusedCell ELSE s.prevFocusedCell
      from == Get(cell)
  IN  IF cell = Null THEN s
      ELSE IF ~(n = 1 /\ event.ctrlKey) /\ n # 0 THEN s
      ELSE IF insideWidget(from)
      THEN IF key = KeyCode.escape \/ key = f2Code
           THEN preventAndMoveBy(s, from, 0, 0) ELSE s
      ELSE dispatchKey(s, from, key)

\* onKeydown without the gate of the widget cells.
onKeydownUngated(s, event) ==
  LET n == numModifiersPressed(event)
      key == keyOf(event)
      from == Get(s.focusedCell)
  IN  IF s.focusedCell = Null THEN s
      ELSE IF ~(n = 1 /\ event.ctrlKey) /\ n # 0 THEN s
      ELSE dispatchKey(s, from, key)

\* onKeydown
onKeydown(s, event) ==
  LET n == numModifiersPressed(event)
      key == keyOf(event)
      from == Get(s.focusedCell)
  IN  IF s.focusedCell = Null THEN s
      ELSE IF ~(n = 1 /\ event.ctrlKey) /\ n # 0 THEN s
      ELSE IF insideWidget(from)
      THEN IF key = KeyCode.escape \/ key = f2Code
           THEN preventAndMoveBy(s, from, 0, 0) ELSE s
      ELSE dispatchKey(s, from, key)

\* The removed nodes of a batch of records, in order.
RECURSIVE removedNodesOf(_)
removedNodesOf(records) ==
  IF records = <<>> THEN <<>>
  ELSE (IF Head(records).type = "childList" THEN Head(records).removedNodes ELSE <<>>)
         \o removedNodesOf(Tail(records))

\* The loops of onMutation reading focusedCell in place of prevFocusedCell.
RECURSIVE reapplyFocusFromFocused(_, _)
reapplyFocusFromFocused(s, nodes) ==
  IF nodes = <<>> \/ s.thrown THEN s
  ELSE LET s1 == IF s.focusedCell # Null
                    /\ containsOrEqual(Head(nodes), Get(s.focusedCell).element)
                 THEN IF s._table = Null THEN Throw(s)
                      ELSE moveFocusBy(s, Get(s.focusedCell), [y |-> 0, x |-> 0])
                 ELSE s
       IN  reapplyFocusFromFocused(s1, Tail(nodes))

\* The loops of onMutation over the records and their removed nodes.
RECURSIVE reapplyFocus(_, _)
reapplyFocus(s, nodes) ==
  IF nodes = <<>> \/ s.thrown THEN s
  ELSE LET prev == Get(s.prevFocusedCell)
           s1 == IF containsOrEqual(Head(nodes), prev.element)
                 THEN IF s._table = Null THEN Throw(s)
                      ELSE moveFocusBy(s, prev, [y |-> 0, x |-> 0])
                 ELSE s
       IN  reapplyFocus(s1, Tail(nodes))

\* onMutation refreshing the indices only after a move.
onMutationRefreshOnMove(s, mutationRecords) ==
  LET s1 == reapplyFocus(s, removedNodesOf(mutationRecords))
  IN  IF s.prevFocusedCell = Null THEN s
      ELSE IF s1.thrown \/ s1.calls = s.calls THEN s1
      ELSE IF s1._table = Null THEN Throw(s1)
      ELSE updateTableIndices(
             s1, IF s1.focusedCell # Null THEN s1.focusedCell ELSE s1.prevFocusedCell)

\* onMutation
onMutation(s, mutationRecords) ==
  LET s1 == reapplyFocus(s, removedNodesOf(mutationRecords))
  IN  IF s.prevFocusedCell = Null THEN s
      ELSE IF s1.thrown THEN s1
      ELSE IF s1._table = Null THEN Throw(s1)
      ELSE updateTableIndices(
             s1, IF s1.focusedCell # Null THEN s1.focusedCell ELSE s1.prevFocusedCell)

\* The observer a call of init creates: a new one, named by the least name
\* no connected observer has (init drops the closure that held the last one).
FreeObservers(s) == ObserverIds \ s.observers
newMutationObserver(s) == CHOOSE o \in FreeObservers(s) : \A q \in FreeObservers(s) : o <= q

EventTypes == {"focusin", "focusout", "keydown"}

\* init without the assignment of _table.
initUnbound(s, table) ==
  LET mutationObserver == newMutationObserver(s)
      s2 == Record([s EXCEPT !.listeners = @ \cup EventTypes],
                   Call("addEventListener", 0, 0))
      s3 == Record([s2 EXCEPT !.observers = @ \cup {mutationObserver},
                              !.pending[mutationObserver] = <<>>],
                   Call("observe", 0, 0))
      s4 == updateTableIndices(
              s3, IF s3.focusedCell # Null THEN s3.focusedCell ELSE s3.prevFocusedCell)
  IN  IF s._table = Null THEN Throw(s)
      ELSE [s4 EXCEPT !.cleanup = mutationObserver]

\* init that observes with the observer it already has, if any.
initReusingObserver(s, table) ==
  LET mutationObserver == IF s.observers # {} THEN s.cleanup ELSE newMutationObserver(s)
      s1 == [s EXCEPT !._table = Some(table)]
      s2 == Record([s1 EXCEPT !.listeners = @ \cup EventTypes],
                   Call("addEventListener", 0, 0))
      s3 == Record([s2 EXCEPT !.observers = @ \cup {mutationObserver}],
                   Call("observe", 0, 0))
      s4 == updateTableIndices(
              s3, IF s3.focusedCell # Null THEN s3.focusedCell ELSE s3.prevFocusedCell)
  IN  [s4 EXCEPT !.cleanup = mutationObserver]

\* init(table)
init(s, table) ==
  LET mutationObserver == newMutationObserver(s)
      s1 == [s EXCEPT !._table = Some(table)]
      s2 == Record([s1 EXCEPT !.listeners = @ \cup EventTypes],
                   Call("addEventListener", 0, 0))
      s3 == Record([s2 EXCEPT !.observers = @ \cup {mutationObserver},
                              !.pending[mutationObserver] = <<>>],
                   Call("observe", 0, 0))
      s4 == updateTableIndices(
              s3, IF s3.focusedCell # Null THEN s3.focusedCell ELSE s3.prevFocusedCell)
  IN  IF s1._table = Null THEN Throw(s1)
      ELSE [s4 EXCEPT !.cleanup = mutationObserver]

\* The closure without the disconnect of the observer.
cleanupClosureListenersOnly(s, mutationObserver) ==
  IF s._table = Null THEN Throw(s)
  ELSE Record([s EXCEPT !.listeners = @ \ EventTypes],
              Call("removeEventListener", 0, 0))

\* The closure init assigns to cleanup, over its mutationObserver.
cleanupClosure(s, mutationObserver) ==
  LET s1 == Record([s EXCEPT !.listeners = @ \ EventTypes],
                   Call("removeEventListener", 0, 0))
  IN  IF s._table = Null THEN Throw(s)
      ELSE Record([s1 EXCEPT !.observers = @ \ {mutationObserver},
                             !.pending[mutationObserver] = <<>>],
                  Call("disconnect", 0, 0))

\* destroy() that also releases the table.
destroyAndRelease(s) ==
  IF s.cleanup = 0 THEN s ELSE [cleanupClosure(s, s.cleanup) EXCEPT !._table = Null]

\* destroy()
destroy(s) == IF s.cleanup = 0 THEN s ELSE cleanupClosure(s, s.cleanup)

\* new GridNavigationModel(): the fields of a new instance; the table, its
\* listeners and its observers are not the instance's.
GridNavigationModel(s) ==
  [s EXCEPT !._pageSize = 0, !._table = Null, !.prevFocusedCell = Null,
            !.focusedCell = Null, !.cleanup = 0]

\* The effect attaching the model whatever the role.
effectInitAnyRole(s, role, table) ==
  IF table # Null THEN init(s, Get(table)) ELSE s

\* The effects of useGridNavigation: the one on [model, tableRole], whose
\* getTable() returned `table` (Null or {Table}), and its cleanup.
effectInit(s, role, table) ==
  IF role = "grid" /\ table # Null THEN init(s, Get(table)) ELSE s
\* An effect that returns no cleanup.
effectCleanupMissing(s) == s
effectCleanup(s) == destroy(s)
\* The effect on [model, pageSize].
effectUpdate(s, pageSize) == update(s, pageSize)

\* --------------------------------------------------------------- actions
\* What is kept of an operation: its name and, of a keydown, which modifiers
\* were held ("none", "ctrl" for Ctrl alone, "other") and the key code when
\* the handler made a call (negative with Ctrl alone; 0 when it made none).
Op(name) == [name |-> name, modifiers |-> "none", command |-> 0]
modifiersOf(event) ==
  IF ~event.ctrlKey /\ ~event.altKey /\ ~event.shiftKey /\ ~event.metaKey THEN "none"
  ELSE IF event.ctrlKey /\ ~event.altKey /\ ~event.shiftKey /\ ~event.metaKey THEN "ctrl"
  ELSE "other"
KeydownOp(event, s) ==
  [name |-> "keydown", modifiers |-> modifiersOf(event),
   command |-> IF s.calls = <<>> THEN 0
               ELSE IF modifiersOf(event) = "ctrl" THEN -event.keyCode
               ELSE event.keyCode]

KeyCodes ==
  {KeyCode.up, KeyCode.down, KeyCode.left, KeyCode.right, KeyCode.pageUp,
   KeyCode.pageDown, KeyCode.home, KeyCode.end, KeyCode.enter, KeyCode.escape,
   f2Code, otherKey}
KeyboardEvents ==
  [keyCode : KeyCodes, ctrlKey : BOOLEAN, altKey : BOOLEAN, shiftKey : BOOLEAN,
   metaKey : BOOLEAN]
TableRoles == {"grid", "table"}

\* The tr nodes something refers to: the rows of the table first, in document
\* order, then the removed rows the focus descriptors and the queued records
\* still hold.
RECURSIVE dedupe(_, _)
dedupe(seq, seen) ==
  IF seq = <<>> THEN <<>>
  ELSE IF Head(seq) \in seen THEN dedupe(Tail(seq), seen)
  ELSE <<Head(seq)>> \o dedupe(Tail(seq), seen \cup {Head(seq)})

RECURSIVE pendingNodes(_, _)
pendingNodes(s, o) ==
  IF o > MaxObservers THEN <<>>
  ELSE removedNodesOf(s.pending[o]) \o pendingNodes(s, o + 1)

cellRow(cell) == IF cell = Null THEN <<>> ELSE <<Get(cell).element.row>>

referencedRows(s) ==
  dedupe(s.rows \o cellRow(s.prevFocusedCell) \o cellRow(s.focusedCell)
           \o pendingNodes(s, 1), {})

\* Every row of the table carries its position as aria-rowindex.
indexed(s) == \A i \in 1 .. Len(s.rows) : s.ariaRowIndex[s.rows[i]] = i - 1

\* The rows whose aria-rowindex a move can read before updateTableIndices
\* rewrites it: those of the focus descriptors (onFocusin and init stamp
\* every row before any other row is read).
readRows(s) == {c.cellElement.row : c \in s.prevFocusedCell \cup s.focusedCell}

\* Nodes have no names of their own: every state is kept with its nodes
\* named by their place in referencedRows, so that a row of the table is
\* named by its position. Nodes nothing refers to lose their attributes,
\* and once the indices of the table are out of date, so do the rows that
\* are not in readRows.
renamed(s, order) ==
  LET name(r) == CHOOSE i \in 1 .. Len(order) : order[i] = r
      element(e) == IF e.row = 0 THEN e ELSE [e EXCEPT !.row = name(e.row)]
      cell(c) == {[element |-> element(d.element),
                   cellElement |-> element(d.cellElement),
                   widget |-> d.widget] : d \in c}
      record(rec) == [type |-> rec.type,
                      removedNodes |-> [i \in 1 .. Len(rec.removedNodes) |->
                                          name(rec.removedNodes[i])]]
  IN  [s EXCEPT
         !.rows = [i \in 1 .. Len(s.rows) |-> i],
         !.ariaRowIndex = [r \in RowIds |->
                             IF r <= Len(order) /\ (indexed(s) \/ order[r] \in readRows(s))
                             THEN s.ariaRowIndex[order[r]] ELSE -1],
         !.activeElement = element(s.activeElement),
         !.prevFocusedCell = cell(s.prevFocusedCell),
         !.focusedCell = cell(s.focusedCell),
         !.pending = [o \in ObserverIds |->
                        [j \in 1 .. Len(s.pending[o]) |-> record(s.pending[o][j])]]]
normalize(s) ==
  LET order == referencedRows(s)
  IN  IF /\ order = [i \in 1 .. Len(order) |-> i]
         /\ Len(order) = Len(s.rows)
         /\ indexed(s)
         /\ \A r \in RowIds : r > Len(s.rows) => s.ariaRowIndex[r] = -1
      THEN s
      ELSE renamed(s, order)

\* The operation `op` leaves the model and the DOM in state s.
Apply(t, op) ==
  \E s \in {normalize(t)} :
  /\ _pageSize' = s._pageSize
  /\ _table' = s._table
  /\ prevFocusedCell' = s.prevFocusedCell
  /\ focusedCell' = s.focusedCell
  /\ cleanup' = s.cleanup
  /\ listeners' = s.listeners
  /\ observers' = s.observers
  /\ pending' = s.pending
  /\ rows' = s.rows
  /\ ariaRowIndex' = s.ariaRowIndex
  /\ activeElement' = s.activeElement
  /\ calls' = s.calls
  /\ thrown' = s.thrown
  /\ lastOp' = op

\* Mutation records are delivered in a microtask, before the next event of
\* the user is dispatched.
NoMicrotask == \A o \in observers : pending[o] = <<>>

\* A record is queued for every observer of the table.
enqueue(s, record) ==
  [s EXCEPT !.pending = [o \in ObserverIds |->
                           IF o \in s.observers THEN Append(s.pending[o], record)
                           ELSE s.pending[o]]]
CanEnqueue == \A o \in observers : Len(pending[o]) < MaxPending

\* A node that nothing refers to.
newRow == Len(referencedRows(Now)) + 1

\* model.init(table), called directly, first or after destroy
InitCall ==
  /\ observers = {}
  /\ Apply(init(Now, Table), Op("init"))
  /\ UNCHANGED <<mounted, tableRole>>

\* model.init(table), called directly while an observer of an earlier init is
\* still connected
ReinitCall ==
  /\ observers # {}
  /\ FreeObservers(Now) # {}
  /\ Apply(init(Now, Table), Op("init"))
  /\ UNCHANGED <<mounted, tableRole>>

\* model.destroy(), called directly
DestroyCall ==
  /\ Apply(destroy(Now), Op("destroy"))
  /\ UNCHANGED <<mounted, tableRole>>

PageSizes == 0 .. MaxPageSize
SomePageSizes == {0, MaxPageSize}

\* model.update({ pageSize }), called directly
UpdateCall ==
  \E pageSize \in PageSizes :
    /\ Apply(update(Now, pageSize), Op("update"))
    /\ UNCHANGED <<mounted, tableRole>>

\* The same, with no page size or the largest one.
UpdateSome ==
  \E pageSize \in SomePageSizes :
    /\ Apply(update(Now, pageSize), Op("update"))
    /\ UNCHANGED <<mounted, tableRole>>

\* The user moves focus to an element of the table, or out of the table.
FocusChange ==
  \E target \in (CellElements(rows) \cup {TableRoot, Body}) \ {activeElement} :
    /\ NoMicrotask
    /\ Apply(focus(Now, target), Op("focus"))
    /\ UNCHANGED <<mounted, tableRole>>

\* A key is pressed while an element of the table has focus.
KeydownOf(event) ==
  /\ NoMicrotask
  /\ "keydown" \in listeners
  /\ InTable(rows, activeElement)
  /\ \E s \in {onKeydown(Now, event)} : Apply(s, KeydownOp(event, s))
  /\ UNCHANGED <<mounted, tableRole>>

\* Any key with any modifiers.
Keydown == \E event \in KeyboardEvents : KeydownOf(event)

\* Every key alone and with Ctrl alone, and one key for every other
\* combination of modifiers.
SomeKeyboardEvents ==
  {e \in KeyboardEvents : modifiersOf(e) # "other" \/ e.keyCode = KeyCode.down}
KeydownSome == \E event \in SomeKeyboardEvents : KeydownOf(event)

\* A row is removed from the table. When it holds the focused element, focus
\* falls back to the body; whether focusout is dispatched for it depends on
\* the browser.
RemoveRow ==
  \E i \in 1 .. Len(rows), firesFocusout \in BOOLEAN :
    LET node == rows[i]
        hadFocus == activeElement.row = node
        s1 == [Now EXCEPT !.rows = SubSeq(rows, 1, i - 1) \o SubSeq(rows, i + 1, Len(rows)),
                          !.activeElement = IF hadFocus THEN Body ELSE @]
        s2 == IF hadFocus /\ firesFocusout /\ "focusout" \in listeners
              THEN onFocusout(s1) ELSE s1
    IN  /\ CanEnqueue
        /\ firesFocusout => hadFocus
        /\ Apply(enqueue(s2, [type |-> "childList", removedNodes |-> <<node>>]),
                 Op("removeRow"))
        /\ UNCHANGED <<mounted, tableRole>>

\* A row is inserted into the table.
AddRow ==
  \E i \in 1 .. (Len(rows) + 1) :
    LET node == newRow
        s1 == [Now EXCEPT !.rows = SubSeq(rows, 1, i - 1) \o <<node>> \o SubSeq(rows, i, Len(rows)),
                          !.ariaRowIndex[node] = -1]
    IN  /\ CanEnqueue
        /\ Len(rows) < MaxRows
        /\ newRow \in RowIds
        /\ Apply(enqueue(s1, [type |-> "childList", removedNodes |-> <<>>]),
                 Op("addRow"))
        /\ UNCHANGED <<mounted, tableRole>>

\* The records queued for an observer are delivered to onMutation.
DeliverMutations ==
  \E o \in observers :
    /\ pending[o] # <<>>
    /\ Apply(onMutation([Now EXCEPT !.pending[o] = <<>>], pending[o]), Op("mutation"))
    /\ UNCHANGED <<mounted, tableRole>>

\* useGridNavigation: the component mounts with a new model; both effects run.
Mount ==
  \E role \in TableRoles, table \in {Null, Some(Table)}, pageSize \in SomePageSizes :
    /\ ~mounted
    /\ (role = "grid" /\ table # Null) => FreeObservers(Now) # {}
    /\ Apply(effectUpdate(effectInit(GridNavigationModel(Now), role, table), pageSize),
             Op("mount"))
    /\ mounted' = TRUE
    /\ tableRole' = role

\* useGridNavigation: tableRole changes; the cleanup of the first effect
\* runs, then the effect.
ChangeRole ==
  \E role \in TableRoles \ {tableRole}, table \in {Null, Some(Table)} :
    /\ mounted
    /\ (role = "grid" /\ table # Null) => FreeObservers(effectCleanup(Now)) # {}
    /\ Apply(effectInit(effectCleanup(Now), role, table), Op("changeRole"))
    /\ tableRole' = role
    /\ UNCHANGED mounted

\* useGridNavigation: pageSize changes; the second effect runs.
ChangePageSize ==
  \E pageSize \in SomePageSizes \ {_pageSize} :
    /\ mounted
    /\ Apply(effectUpdate(Now, pageSize), Op("changePageSize"))
    /\ UNCHANGED <<mounted, tableRole>>

\* useGridNavigation: the component unmounts; the cleanup of the first
\* effect runs.
Unmount ==
  /\ mounted
  /\ Apply(effectCleanup(Now), Op("unmount"))
  /\ mounted' = FALSE
  /\ UNCHANGED tableRole

InitGrid(n) ==
  /\ _pageSize = 0
  /\ _table = Null
  /\ prevFocusedCell = Null
  /\ focusedCell = Null
  /\ cleanup = 0
  /\ listeners = {}
  /\ observers = {}
  /\ pending = [o \in ObserverIds |-> <<>>]
  /\ rows = [i \in 1 .. n |-> i]
  /\ ariaRowIndex = [r \in RowIds |-> -1]
  /\ activeElement = Body
  /\ mounted = FALSE
  /\ tableRole = "table"
  /\ lastOp = Op("none")
  /\ calls = <<>>
  /\ thrown = FALSE

\* The model driven directly through init, destroy and update.
Next ==
  \/ InitCall
  \/ DestroyCall
  \/ UpdateSome
  \/ FocusChange
  \/ KeydownSome
  \/ RemoveRow
  \/ AddRow
  \/ DeliverMutations

Init == InitGrid(MaxRows)
Spec == Init /\ [][Next]_vars

\* The model driven by the hook.
NextHook ==
  \/ Mount
  \/ ChangeRole
  \/ ChangePageSize
  \/ Unmount
  \/ FocusChange
  \/ RemoveRow
  \/ DeliverMutations

HookSpec == Init /\ [][NextHook]_vars

\* The model attached once to a grid whose rows do not change.
NextNav ==
  \/ InitCall
  \/ UpdateCall
  \/ FocusChange
  \/ Keydown

InitNav == InitGrid(GridRows)
NavSpec == InitNav /\ [][NextNav]_vars

\* The model with init called again while it is attached.
NextReinit ==
  \/ InitCall
  \/ ReinitCall
  \/ DestroyCall
  \/ FocusChange
  \/ RemoveRow
  \/ DeliverMutations

ReinitSpec == Init /\ [][NextReinit]_vars

\* ---------------------------------------------------------------- claims
MaxPresses == 3

Key(k) ==
  [keyCode |-> k, ctrlKey |-> FALSE, altKey |-> FALSE, shiftKey |-> FALSE,
   metaKey |-> FALSE]
Ctrl(k) == [Key(k) EXCEPT !.ctrlKey = TRUE]

\* The next event handled, with the record of calls empty again.
Then(s) == [s EXCEPT !.calls = <<>>]

\* The logical coordinate of an element of the table: row and column.
CoordinateOf(s, e) == <<PositionOf(s.rows, e.row) - 1, e.col>>
LastRow(s) == Len(s.rows) - 1
LastCol == NumCols - 1

\* The model is attached, a keydown can be delivered, and the element that
\* has focus is the one focusedCell describes.
FocusTracked ==
  /\ NoMicrotask
  /\ listeners = EventTypes
  /\ focusedCell # Null
  /\ Get(focusedCell).element = activeElement
  /\ activeElement \in CellElements(rows)

\* Focus is on a cell: not on an element nested in a widget cell.
FocusOnCell == FocusTracked /\ ~(Get(focusedCell).widget /\ activeElement.part # 0)

\* After the handler, focus and focusedCell are on the cell at coord.
FocusAt(s, coord) ==
  /\ s.activeElement \in CellElements(s.rows)
  /\ CoordinateOf(s, s.activeElement) = coord
  /\ s.focusedCell # Null
  /\ Get(s.focusedCell).element = s.activeElement
  /\ Get(s.focusedCell).cellElement = [s.activeElement EXCEPT !.part = 0]

ArrowKeys == {KeyCode.up, KeyCode.down, KeyCode.left, KeyCode.right}
UnitDelta(k) ==
  CASE k = KeyCode.up -> <<-1, 0>>
    [] k = KeyCode.down -> <<1, 0>>
    [] k = KeyCode.left -> <<0, -1>>
    [] k = KeyCode.right -> <<0, 1>>
Plus(a, b) == <<a[1] + b[1], a[2] + b[2]>>

ClampToGrid(s, coord) ==
  <<Clamp(coord[1], 0, LastRow(s)), Clamp(coord[2], 0, LastCol)>>

\* Focus is at coord in state s, and after each of up to n further arrow
\* presses it is at the coordinate moved by the unit delta of the press and
\* clamped to the grid after that press.
RECURSIVE ClampedWalk(_, _, _)
ClampedWalk(s, coord, n) ==
  /\ FocusAt(s, coord)
  /\ n > 0 =>
       \A k \in ArrowKeys :
         ClampedWalk(onKeydown(Then(s), Key(k)),
                     ClampToGrid(s, Plus(coord, UnitDelta(k))), n - 1)

\* Focus is at start plus sum, clamped, in state s, and so it is after each
\* of up to n further arrow presses, with their unit deltas added to sum.
RECURSIVE SumThenClamp(_, _, _, _)
SumThenClamp(s, start, sum, n) ==
  /\ FocusAt(s, ClampToGrid(s, Plus(start, sum)))
  /\ n > 0 =>
       \A k \in ArrowKeys :
         SumThenClamp(onKeydown(Then(s), Key(k)), start,
                      Plus(sum, UnitDelta(k)), n - 1)

\* C1 as amended: with focus on a cell, after any sequence of unmodified
\* arrow presses the focused cell is the one reached from the starting
\* coordinate by adding the unit deltas one press at a time and clamping to
\* the grid after each press; it is never outside the grid.
C1_ArrowsClampedEachPress ==
  FocusOnCell => ClampedWalk(Now, CoordinateOf(Now, activeElement), MaxPresses)

\* C1 as stated: the focused cell after the presses is at the starting
\* coordinate plus the sum of the unit deltas, clamped to the grid.
C1_ArrowsSumThenClamp ==
  FocusOnCell =>
    SumThenClamp(Now, CoordinateOf(Now, activeElement), <<0, 0>>, MaxPresses)

\* Right was pressed on a cell of the last column: the move was clamped.
C1_Witness ==
  /\ FocusOnCell
  /\ lastOp.name = "keydown"
  /\ lastOp.command = KeyCode.right
  /\ calls = <<Call("preventDefault", 0, 0), Call("moveFocusBy", 0, 1)>>
  /\ CoordinateOf(Now, activeElement)[2] = LastCol

\* The modifier states of C2: Alt, Shift or Meta alone, or two or more of
\* Ctrl, Alt, Shift and Meta.
HeldModifiers(e) ==
  {m \in {"ctrl", "alt", "shift", "meta"} :
     \/ m = "ctrl" /\ e.ctrlKey
     \/ m = "alt" /\ e.altKey
     \/ m = "shift" /\ e.shiftKey
     \/ m = "meta" /\ e.metaKey}
IgnoredEvents ==
  {e \in KeyboardEvents :
     \/ Cardinality(HeldModifiers(e)) >= 2
     \/ Cardinality(HeldModifiers(e)) = 1 /\ ~e.ctrlKey}

\* C2: a keydown with Alt, Shift or Meta alone, or with two or more
\* modifiers, makes no call (neither preventDefault nor a move) and leaves
\* focusedCell, prevFocusedCell and the rest of the state as they are,
\* whatever the key and the focus state.
C2_OtherModifiersIgnored == \A e \in IgnoredEvents : onKeydown(Now, e) = Now

\* Such a keydown was handled while a cell was focused.
C2_Witness ==
  /\ lastOp.name = "keydown"
  /\ lastOp.modifiers = "other"
  /\ focusedCell # Null
  /\ calls = <<>>

\* C3: with focus on a cell at (r, c), Home moves focus to (r, first
\* column) and End to (r, last column); Ctrl+Home moves it to the first cell
\* of the grid and Ctrl+End to the last one.
C3_HomeEnd ==
  FocusOnCell =>
    LET r == CoordinateOf(Now, activeElement)[1]
    IN  /\ FocusAt(onKeydown(Now, Key(KeyCode.home)), <<r, 0>>)
        /\ FocusAt(onKeydown(Now, Key(KeyCode.end)), <<r, LastCol>>)
        /\ FocusAt(onKeydown(Now, Ctrl(KeyCode.home)), <<0, 0>>)
        /\ FocusAt(onKeydown(Now, Ctrl(KeyCode.end)), <<LastRow(Now), LastCol>>)

\* Ctrl+End was pressed and focus is on the last cell of the grid.
C3_Witness ==
  /\ FocusOnCell
  /\ lastOp.name = "keydown"
  /\ lastOp.modifiers = "ctrl"
  /\ lastOp.command = -KeyCode.end
  /\ CoordinateOf(Now, activeElement) = <<LastRow(Now), LastCol>>
  /\ Len(rows) > 1

\* Focus is on the td of a cell that hosts a widget.
OnWidgetCell ==
  /\ FocusTracked
  /\ activeElement.part = 0
  /\ isWidgetCell(activeElement.col)

\* C4: from the cell element of a widget cell, Enter moves focus into the
\* widget (element differs from cellElement), and Escape then moves it back
\* to that very cell element.
C4_EnterEscape ==
  OnWidgetCell =>
    LET s1 == onKeydown(Now, Key(KeyCode.enter))
        s2 == onKeydown(Then(s1), Key(KeyCode.escape))
    IN  /\ s1.focusedCell # Null
        /\ Get(s1.focusedCell).element # Get(s1.focusedCell).cellElement
        /\ Get(s1.focusedCell).element = s1.activeElement
        /\ Get(s1.focusedCell).cellElement = activeElement
        /\ s2.activeElement = activeElement
        /\ s2.focusedCell = focusedCell
        /\ CoordinateOf(s2, s2.activeElement) = CoordinateOf(Now, activeElement)

\* Escape was pressed inside a widget and focus is back on the cell element.
C4_Witness ==
  /\ OnWidgetCell
  /\ lastOp.name = "keydown"
  /\ lastOp.command = KeyCode.escape
  /\ SubSeq(calls, 1, 2) = <<Call("preventDefault", 0, 0), Call("moveFocusBy", 0, 0)>>

\* Focus is at cell level when it is on the td, at widget level otherwise.
CellLevel(s) == s.activeElement.part = 0

\* F2 then F2 from the tracked focus state: each press switches the level
\* and the second returns focus to the element it started from.
F2Toggles ==
  LET s1 == onKeydown(Now, Key(f2Code))
      s2 == onKeydown(Then(s1), Key(f2Code))
  IN  /\ CellLevel(s1) # CellLevel(Now)
      /\ CellLevel(s2) # CellLevel(s1)
      /\ s2.activeElement = activeElement
      /\ s2.focusedCell = focusedCell

\* C5 as amended: from focus on the cell element of a cell that has a
\* focusable descendant, or on the first focusable element nested in a
\* cell, F2 twice returns focus to the element it started from, and each F2
\* switches between cell level and widget level.
C5_F2FromCellOrFirstFocusable ==
  (/\ FocusTracked
   /\ \/ activeElement.part = 0 /\ numFocusables(activeElement.col) > 0
      \/ activeElement.part = 1)
    => F2Toggles

\* C5 as stated: the same from any focus state inside the table, the cell
\* element or any focusable element nested in the cell.
C5_F2FromAnyElement == FocusTracked => F2Toggles

\* F2 was pressed on a cell element and focus is on its first focusable.
C5_Witness ==
  /\ FocusTracked
  /\ lastOp.name = "keydown"
  /\ lastOp.command = f2Code
  /\ SubSeq(calls, 1, 2) = <<Call("preventDefault", 0, 0), Call("moveFocusIn", 0, 0)>>
  /\ activeElement.part = 1

\* The records queued for observer o remove a node that holds the element
\* of prevFocusedCell, and the model is attached.
RemovesPrevFocused(o) ==
  /\ listeners = EventTypes
  /\ prevFocusedCell # Null
  /\ \E i \in 1 .. Len(removedNodesOf(pending[o])) :
       containsOrEqual(removedNodesOf(pending[o])[i], Get(prevFocusedCell).element)

\* The state onMutation leaves when these records are delivered.
Delivered(o) == onMutation([Now EXCEPT !.pending[o] = <<>>], pending[o])

\* The cell element at the coordinate of prevFocusedCell, clamped to the
\* rows the table has now.
SameCoordinate(s) ==
  LET prev == Get(s.prevFocusedCell).cellElement
      coord == ClampToGrid(s, <<s.ariaRowIndex[prev.row], prev.col>>)
  IN  Element(s.rows[coord[1] + 1], coord[2], 0)

\* What C6 says of the handler apart from where focus lands: it issues the
\* zero-delta move first, does not throw, and ends by refreshing the indices,
\* which then agree with the rows of the table.
ReappliesAndRefreshes(r) ==
  /\ r.calls # <<>>
  /\ r.calls[1] = Call("moveFocusBy", 0, 0)
  /\ ~r.thrown
  /\ r.calls[Len(r.calls)] = Call("updateTableIndices", 0, 0)
  /\ indexed(r)

\* C6 as amended: when the batch removes the element of prevFocusedCell,
\* onMutation issues a zero-delta move from prevFocusedCell, does not throw
\* and refreshes the indices last; provided the table still has a row, focus
\* is then on the cell at the same coordinate, clamped to the grid.
C6_FocusReappliedWhileRowsRemain ==
  \A o \in observers :
    RemovesPrevFocused(o) =>
      /\ ReappliesAndRefreshes(Delivered(o))
      /\ Len(rows) > 0 => Delivered(o).activeElement = SameCoordinate(Now)

\* C6 as stated: focus is then on a valid cell at that coordinate, whatever
\* is left of the table.
C6_FocusReapplied ==
  \A o \in observers :
    RemovesPrevFocused(o) =>
      /\ ReappliesAndRefreshes(Delivered(o))
      /\ Delivered(o).activeElement \in CellElements(rows)

\* A batch that removed the focused row was delivered and focus is on a cell.
C6_Witness ==
  /\ lastOp.name = "mutation"
  /\ Len(calls) >= 2
  /\ calls[1] = Call("moveFocusBy", 0, 0)
  /\ calls[Len(calls)] = Call("updateTableIndices", 0, 0)
  /\ activeElement \in CellElements(rows)
  /\ focusedCell # Null
  /\ Get(focusedCell).element = activeElement

\* C7: focusedCell is non-null only if the element that has focus is inside
\* the table.
C7_FocusedCellOnlyInsideTable == focusedCell # Null => InTable(rows, activeElement)

FnsOf(cs) == [i \in 1 .. Len(cs) |-> cs[i].fn]

\* destroy() has just run on a model that was initialised.
Destroyed == lastOp.name = "destroy" /\ cleanup # 0

\* C8 as amended: a second destroy() in a row does not throw; it runs the
\* same cleanup closure again, which removes the listeners and disconnects
\* the observer once more, and this changes nothing: no listener, no
\* observer and no field of the model differs afterwards.
C8_SecondDestroyChangesNothing ==
  Destroyed =>
    /\ ~destroy(Now).thrown
    /\ FnsOf(destroy(Now).calls) = <<"removeEventListener", "disconnect">>
    /\ Then(destroy(Now)) = Now

\* C8 as stated: the second destroy() does not throw and performs no
\* listener removal and no disconnect, the cleanup being empty.
C8_SecondDestroyCallsNothing ==
  Destroyed => ~destroy(Now).thrown /\ destroy(Now).calls = <<>>

\* destroy() ran on an initialised model: nothing is attached any more.
C8_Witness ==
  /\ Destroyed
  /\ FnsOf(calls) = <<"removeEventListener", "disconnect">>
  /\ listeners = {}
  /\ observers = {}
  /\ _table # Null

\* C9: under the hook at most one attachment is active: at most one observer
\* is connected, and the listeners are installed exactly when one is.
C9_AtMostOneAttachment ==
  /\ Cardinality(observers) <= 1
  /\ listeners \in {{}, EventTypes}
  /\ listeners = EventTypes <=> observers # {}

\* tableRole changed to 'grid' on a mounted component: one attachment.
C9_Witness ==
  /\ mounted
  /\ lastOp.name = "changeRole"
  /\ tableRole = "grid"
  /\ Cardinality(observers) = 1
  /\ listeners = EventTypes

\* C10: prevFocusedCell is null until a focusin resolves to a cell and that
\* focusin sets it; no operation makes it null again; focusout clears
\* focusedCell and leaves prevFocusedCell as it is.
C10_PrevFocusedCellKept ==
  /\ [](/\ onFocusout(Now).prevFocusedCell = prevFocusedCell
        /\ onFocusout(Now).focusedCell = Null
        /\ \A target \in CellElements(rows) :
             /\ onFocusin(Now, TableRoot).prevFocusedCell = prevFocusedCell
             /\ _table # Null => onFocusin(Now, target).prevFocusedCell # Null)
  /\ [][/\ prevFocusedCell # Null => prevFocusedCell' # Null
        /\ (prevFocusedCell = Null /\ prevFocusedCell' # Null) =>
             /\ lastOp'.name = "focus"
             /\ "focusin" \in listeners
             /\ prevFocusedCell' = findFocusinCell(activeElement')
        /\ (focusedCell # Null /\ focusedCell' = Null
              /\ lastOp'.name = "focus") =>
             prevFocusedCell' = prevFocusedCell]_vars

\* Focus left the table: focusedCell is null, prevFocusedCell is kept.
C10_Witness ==
  /\ lastOp.name = "focus"
  /\ prevFocusedCell # Null
  /\ focusedCell = Null
  /\ activeElement = Body

\* C11: a keydown handled while focusedCell is null changes nothing and makes
\* no call (neither preventDefault nor a move), whatever the key and the
\* modifiers.
C11_NoFocusedCellNoKeydown ==
  focusedCell = Null => \A e \in KeyboardEvents : onKeydown(Now, e) = Now

\* A key was pressed on the element of the table that is in no cell, after a
\* cell had been focused.
C11_Witness ==
  /\ lastOp.name = "keydown"
  /\ activeElement = TableRoot
  /\ focusedCell = Null
  /\ prevFocusedCell # Null
  /\ calls = <<>>

\* The events that move focus out of a widget back to its cell.
LeaveWidgetEvents == {Key(KeyCode.escape), Key(f2Code)}

\* What C12 says of a keydown handled with focus on a nested element:
\* unmodified Escape and F2 call preventDefault, then issue a zero-delta move
\* that puts focus on the cell element; any other event changes nothing and
\* makes no call.
OnlyEscapeAndF2 ==
  \A e \in KeyboardEvents :
    LET r == onKeydown(Now, e)
    IN  IF e \in LeaveWidgetEvents
        THEN /\ Len(r.calls) >= 2
             /\ SubSeq(r.calls, 1, 2)
                  = <<Call("preventDefault", 0, 0), Call("moveFocusBy", 0, 0)>>
             /\ r.activeElement = Get(focusedCell).cellElement
             /\ r.focusedCell = findFocusinCell(r.activeElement)
        ELSE r = Now

\* C12 as amended: when the focused element is nested in a widget cell
\* (focusedCell.widget is true and element is not cellElement), only
\* unmodified Escape and F2 have an effect.
C12_WidgetGate ==
  (focusedCell # Null /\ insideWidget(Get(focusedCell))) => OnlyEscapeAndF2

\* C12 as stated: the same whenever element is not cellElement, whether or
\* not the cell is a widget cell.
C12_NestedElementGate ==
  (focusedCell # Null /\ Get(focusedCell).element # Get(focusedCell).cellElement)
    => OnlyEscapeAndF2

\* F2 was pressed inside a widget and focus is back on the cell element.
C12_Witness ==
  /\ lastOp.name = "keydown"
  /\ lastOp.command = f2Code
  /\ Len(calls) >= 2
  /\ SubSeq(calls, 1, 2) = <<Call("preventDefault", 0, 0), Call("moveFocusBy", 0, 0)>>
  /\ isWidgetCell(activeElement.col)
  /\ activeElement.part = 0
  /\ focusedCell = findFocusinCell(activeElement)

\* destroy() ran after an init and no init followed.
Detached == cleanup # 0 /\ listeners = {}

\* What happens to the table and to the focus, as opposed to a call of init,
\* destroy or update.
DomOps == {"focus", "keydown", "removeRow", "addRow", "mutation"}

\* C13: after init and destroy, the three listeners are removed and the
\* observer is disconnected with nothing left to deliver; from then on, until
\* the next init, no focus change, keydown or mutation of the table makes the
\* model call anything (no move, no refresh of the indices) or throw, none
\* sets or clears focusedCell or prevFocusedCell, and where the rows stay the
\* same both keep their value.
C13_DetachedAfterDestroy ==
  /\ []((lastOp.name = "destroy" /\ cleanup # 0) =>
          /\ listeners = {}
          /\ observers = {}
          /\ \A o \in ObserverIds : pending[o] = <<>>)
  /\ [][(Detached /\ lastOp'.name \in DomOps) =>
          /\ calls' = <<>>
          /\ ~thrown'
          /\ focusedCell' = Null <=> focusedCell = Null
          /\ prevFocusedCell' = Null <=> prevFocusedCell = Null
          /\ rows' = rows =>
               /\ focusedCell' = focusedCell
               /\ prevFocusedCell' = prevFocusedCell
               /\ ariaRowIndex' = ariaRowIndex]_vars

\* After destroy the user moved focus to a cell and the model did not see it.
C13_Witness ==
  /\ Detached
  /\ lastOp.name = "focus"
  /\ activeElement \in CellElements(rows)
  /\ focusedCell = Null
  /\ calls = <<>>

\* C14: with focus on a cell at (r, c), Page Up moves focus to row r - p and
\* Page Down to row r + p, clamped to the first and the last row, in column
\* c, where p is _pageSize: 0 at first, then what the latest update gave, as
\* nothing but update assigns it. update, at any time (before init too),
\* assigns _pageSize and does nothing else: it does not throw, makes no call
\* and leaves listeners, focusedCell and prevFocusedCell alone. In the grid of
\* 3 rows and 3 columns, Page Down from (2, 1) with pageSize 2 leaves focus
\* where it is.
C14_PageUpDownByPageSize ==
  /\ [](/\ lastOp.name = "none" => _pageSize = 0
        /\ \A pageSize \in PageSizes :
             update(Now, pageSize) = [Now EXCEPT !._pageSize = pageSize]
        /\ FocusOnCell =>
             LET r == CoordinateOf(Now, activeElement)[1]
                 c == CoordinateOf(Now, activeElement)[2]
             IN  /\ FocusAt(onKeydown(Now, Key(KeyCode.pageUp)),
                            <<Max(r - _pageSize, 0), c>>)
                 /\ FocusAt(onKeydown(Now, Key(KeyCode.pageDown)),
                            <<Min(r + _pageSize, LastRow(Now)), c>>)
        /\ (/\ FocusOnCell
            /\ Len(rows) = 3
            /\ NumCols = 3
            /\ CoordinateOf(Now, activeElement) = <<2, 1>>) =>
             LET after == onKeydown(update(Now, 2), Key(KeyCode.pageDown))
             IN  /\ FocusAt(after, <<2, 1>>)
                 /\ after.activeElement = activeElement)
  /\ [][lastOp'.name # "update" => _pageSize' = _pageSize]_vars

\* Page Down was pressed on the last row with the largest page size, before
\* which update had been called: the move was clamped and focus stayed.
C14_Witness ==
  /\ FocusOnCell
  /\ lastOp.name = "keydown"
  /\ lastOp.command = KeyCode.pageDown
  /\ _pageSize = MaxPageSize
  /\ calls = <<Call("preventDefault", 0, 0), Call("moveFocusBy", MaxPageSize, 0)>>
  /\ CoordinateOf(Now, activeElement) = <<LastRow(Now), 1>>

\* C15: under the hook, the listeners and the observer are installed only
\* while the component is mounted with tableRole 'grid': with any other role,
\* and after unmount, the table has no listener of the model, no connected
\* observer and no record waiting for one.
C15_AttachedOnlyAsGrid ==
  (~mounted \/ tableRole # "grid") =>
    /\ listeners = {}
    /\ observers = {}
    /\ \A o \in ObserverIds : pending[o] = <<>>

\* tableRole changed from 'grid' to another role on a mounted component whose
\* model was attached: the attachment is gone.
C15_Witness ==
  /\ mounted
  /\ tableRole # "grid"
  /\ lastOp.name = "changeRole"
  /\ calls = <<Call("removeEventListener", 0, 0), Call("disconnect", 0, 0)>>
  /\ listeners = {}
  /\ observers = {}

\* C16: an init while an observer of an earlier init is connected connects
\* one more observer and overwrites cleanup with the closure over the new
\* one; destroy disconnects the observer of cleanup only (and removes the
\* listeners, which are the same three functions for every init), so an
\* observer that is not the one of cleanup is never disconnected: after a
\* later destroy it is still connected, and the records delivered to it still
\* run onMutation, which refreshes the indices.
C16_FirstObserverLeaks ==
  /\ [][(lastOp'.name = "init" /\ observers # {}) =>
          /\ observers \subseteq observers'
          /\ Cardinality(observers') = Cardinality(observers) + 1
          /\ cleanup' \in observers' \ observers
          /\ listeners' = EventTypes]_vars
  /\ [][lastOp'.name = "destroy" =>
          /\ observers' = observers \ {cleanup}
          /\ listeners' = {}
          /\ cleanup' = cleanup]_vars
  /\ [][(observers \ {cleanup}) \subseteq observers']_vars
  /\ [](\A o \in observers \ {cleanup} :
          (prevFocusedCell # Null /\ pending[o] # <<>>) =>
            LET r == Delivered(o)
            IN  /\ r.calls # <<>>
                /\ r.calls[Len(r.calls)] = Call("updateTableIndices", 0, 0))

\* After init, init and destroy, with no listener left on the table, the
\* observer of the first init delivered records and onMutation ran.
C16_Witness ==
  /\ lastOp.name = "mutation"
  /\ listeners = {}
  /\ observers # {}
  /\ cleanup \notin observers
  /\ calls # <<>>
  /\ calls[Len(calls)] = Call("updateTableIndices", 0, 0)

\* The elements a focusin on the table can have as its target.
FocusinTargets == CellElements(rows) \cup {TableRoot}

\* C17: a focusin whose target resolves to no cell changes nothing and makes
\* no call; one whose target resolves to a cell sets focusedCell and
\* prevFocusedCell to the descriptor of that cell, then refreshes the indices
\* once, anchored at that descriptor, and does nothing else.
C17_FocusinResolvedOrIgnored ==
  _table # Null =>
    \A target \in FocusinTargets :
      LET cell == findFocusinCell(target)
          r == onFocusin(Now, target)
      IN  IF cell = Null
          THEN r = Now
          ELSE /\ r.focusedCell = cell
               /\ r.prevFocusedCell = cell
               /\ r.calls = <<Call("updateTableIndices", 0, 0)>>
               /\ r.anchor = cell
               /\ indexed(r)
               /\ ~r.thrown
               /\ [r EXCEPT !.focusedCell = focusedCell,
                            !.prevFocusedCell = prevFocusedCell,
                            !.ariaRowIndex = ariaRowIndex,
                            !.calls = <<>>, !.anchor = Null] = Now

\* Focus moved from a cell to the element of the table that is in no cell:
\* the focusin was ignored, after the focusout had cleared focusedCell.
C17_Witness ==
  /\ lastOp.name = "focus"
  /\ "focusin" \in listeners
  /\ activeElement = TableRoot
  /\ prevFocusedCell # Null
  /\ focusedCell = Null
  /\ calls = <<>>

\* The calls of a handler to one collaborator.
CallsTo(r, fn) == {i \in 1 .. Len(r.calls) : r.calls[i].fn = fn}

\* The records queued for observer o remove a node that holds the element of
\* prevFocusedCell.
RemovedPrevFocused(o) ==
  \E i \in 1 .. Len(removedNodesOf(pending[o])) :
    containsOrEqual(removedNodesOf(pending[o])[i], Get(prevFocusedCell).element)

\* C18: for every batch delivered to onMutation: with prevFocusedCell null
\* the handler changes nothing and makes no call. Otherwise it does not
\* throw and its last call refreshes the indices, anchored at focusedCell if
\* that is non-null and at prevFocusedCell if not; it makes that call once
\* (any other refresh directly follows a move: it is the one of onFocusin,
\* run by the focusin of that move); it calls no move primitive but
\* moveFocusBy with a zero delta, and calls it exactly when the batch removed
\* a node that holds the element of prevFocusedCell; a batch that removed no
\* such node leaves the focused element, focusedCell and prevFocusedCell as
\* they are.
C18_MutationRefreshesOnce ==
  \A o \in observers :
    pending[o] # <<>> =>
      LET r == Delivered(o)
          n == Len(r.calls)
      IN  IF prevFocusedCell = Null
          THEN r = [Now EXCEPT !.pending[o] = <<>>]
          ELSE /\ ~r.thrown
               /\ n > 0
               /\ r.calls[n] = Call("updateTableIndices", 0, 0)
               /\ r.anchor = IF r.focusedCell # Null THEN r.focusedCell
                             ELSE r.prevFocusedCell
               /\ \A i \in CallsTo(r, "updateTableIndices") \ {n} :
                    i > 1 /\ r.calls[i - 1].fn = "moveFocusBy"
               /\ \A i \in 1 .. n :
                    r.calls[i].fn \in {"updateTableIndices", "moveFocusBy"}
               /\ \A i \in CallsTo(r, "moveFocusBy") : r.calls[i] = Call("moveFocusBy", 0, 0)
               /\ CallsTo(r, "moveFocusBy") # {} <=> RemovedPrevFocused(o)
               /\ ~RemovedPrevFocused(o) =>
                    /\ r.calls = <<Call("updateTableIndices", 0, 0)>>
                    /\ r.activeElement = activeElement
                    /\ r.focusedCell = focusedCell
                    /\ r.prevFocusedCell = prevFocusedCell

\* A batch that removed no node holding the element of prevFocusedCell was
\* delivered while a cell was focused: one refresh, focus as it was.
C18_Witness ==
  /\ lastOp.name = "mutation"
  /\ focusedCell # Null
  /\ activeElement = Get(focusedCell).element
  /\ calls = <<Call("updateTableIndices", 0, 0)>>

MovePrimitives == {"moveFocusBy", "moveFocusIn"}

\* The handler neither prevented the default action nor called a move
\* primitive (it made no call at all).
NeitherPreventsNorMoves(r) == r.calls = <<>> /\ r = Now

\* C19: for every keydown event, onKeydown calls preventDefault if and only
\* if it calls a move primitive; it then calls preventDefault first and the
\* move primitive next, each once. Enter with focus not on the cell element,
\* Escape with focus on the cell element and a key that is no command call
\* neither.
C19_PreventDefaultIffMove ==
  /\ \A e \in KeyboardEvents :
       LET r == onKeydown(Now, e)
       IN  /\ CallsTo(r, "preventDefault") # {}
                <=> (\E fn \in MovePrimitives : CallsTo(r, fn) # {})
           /\ CallsTo(r, "preventDefault") # {} =>
                /\ CallsTo(r, "preventDefault") = {1}
                /\ r.calls[2].fn \in MovePrimitives
                /\ \A fn \in MovePrimitives : CallsTo(r, fn) \subseteq {2}
           /\ ~r.thrown
  /\ focusedCell # Null =>
       LET from == Get(focusedCell)
       IN  /\ from.element # from.cellElement =>
                NeitherPreventsNorMoves(onKeydown(Now, Key(KeyCode.enter)))
           /\ from.element = from.cellElement =>
                NeitherPreventsNorMoves(onKeydown(Now, Key(KeyCode.escape)))
           /\ NeitherPreventsNorMoves(onKeydown(Now, Key(otherKey)))
           /\ NeitherPreventsNorMoves(onKeydown(Now, Ctrl(otherKey)))

\* Enter was pressed on a cell with nothing focusable inside: preventDefault,
\* then moveFocusIn, which moved nothing.
C19_Witness ==
  /\ lastOp.name = "keydown"
  /\ lastOp.command = KeyCode.enter
  /\ calls = <<Call("preventDefault", 0, 0), Call("moveFocusIn", 0, 0)>>
  /\ numFocusables(activeElement.col) = 0
  /\ focusedCell = findFocusinCell(activeElement)

\* C20: no operation throws: the table accessor is read by init after it has
\* bound the table, and by the cleanup closure and the handlers, which exist
\* only after an init. destroy and update before any init do not read it.
C20_NeverUsedBeforeInit ==
  /\ ~thrown
  /\ ~destroy(Now).thrown
  /\ \A pageSize \in PageSizes : ~update(Now, pageSize).thrown
  /\ _table = Null =>
       /\ cleanup = 0
       /\ listeners = {}
       /\ observers = {}
       /\ destroy(Now) = Now
  /\ _table # Null =>
       /\ ~onFocusout(Now).thrown
       /\ \A target \in FocusinTargets : ~onFocusin(Now, target).thrown
       /\ \A e \in SomeKeyboardEvents : ~onKeydown(Now, e).thrown
       /\ \A o \in observers : ~Delivered(o).thrown

\* destroy and update were called before any init: destroy ran the empty
\* cleanup and nothing threw.
C20_Witness ==
  /\ lastOp.name = "destroy"
  /\ _table = Null
  /\ _pageSize # 0
  /\ calls = <<>>
  /\ ~thrown

====
